---- MODULE Spec2Model ----
(***************************************************************************)
(* A model of the ITGlue password/folder audit:                            *)
(*   src/ITGlue_api/ITGlueFolders.py   safe_get, get_all_organizations,    *)
(*                                     process_org_passwords,              *)
(*                                     export_password_data, main          *)
(*   src/ITGlue_api/folder_resolver.py FolderResolver                      *)
(*                                                                         *)
(* Four specifications share the variables:                                *)
(*   SpecFetch    one safe_get call after another, one response per step   *)
(*   SpecResolve  resolve calls on one FolderResolver                      *)
(*   SpecAudit    one run of main() over one organization, with every      *)
(*                shape of password detail                                 *)
(*   Spec         main(): debug run or full run, run after run             *)
(***************************************************************************)
EXTENDS Integers, Sequences, FiniteSets, TLC

\* ---------------------------------------------------------------- bounds
\* the process-wide counter is capped so that the state space is finite
MaxHits == 4
\* folder identifiers 1..MaxFolders
MaxFolders == 2
\* breadcrumb <li> elements a folder page shows
MaxCrumbs == 2
\* resolve calls made on the one resolver of SpecResolve
MaxCalls == 3
\* organizations 1..MaxOrgs the server can list
MaxOrgs == 2
\* organizations per listing page (page[size] in the request)
PageSize == 1
\* passwords 1..n, n <= MaxPw, an organization holds
MaxPw == 2
\* invocations of main() in a row
MaxRuns == 2
\* cap of rate_limit_hits within one run of main()
MaxRunHits == 1
\* passwords an organization holds in the runs of Spec (MaxPw in SpecAudit)
MaxRunPw == 1

\* ------------------------------------------------------------- constants
\* safe_get(url, headers, retry_limit=3): no caller passes another value
retry_limit == 3

\* HTTP statuses the server answers with
Statuses == {200, 404, 429, 500}

\* The Retry-After header of a response: absent, a number of seconds, or an
\* HTTP-date (RFC 9110 allows both forms); only a 429 is asked for it.
RetryAfterKinds == {"absent", "seconds", "date"}

Responses ==
    [status : Statuses \ {429}, retry_after : {"absent"}]
        \cup [status : {429}, retry_after : RetryAfterKinds]

\* requests.Response.ok: the status is below 400
ResponseOk(r) == r.status < 400

\* int(response.headers.get("Retry-After", "60")): raises ValueError when the
\* header is present and is not a decimal integer
RetryAfterParses(r) == r.retry_after # "date"

VARIABLES
    f_pc,             \* safe_get: "idle", "running", "returned", "raised"
    attempt,          \* safe_get: iterations of the for loop begun so far
    f_error,          \* safe_get: "none", "fatal" (line 52), "ValueError" (line 38)
    f_response,       \* safe_get: the response returned, or NoResponse
    rate_limit_hits,  \* the global counter
    f_hits0,          \* history: rate_limit_hits when the call began
    f_log             \* history: the responses this call has received

fetchVars == <<f_pc, attempt, f_error, f_response, rate_limit_hits, f_hits0, f_log>>

VARIABLES
    cache,            \* FolderResolver.cache: folder id -> resolution (a dict)
    r_calls,          \* history: resolve calls made on this resolver
    r_last,           \* history: the last resolve call
    r_first           \* history: folder id -> the first resolve call on it

resolveVars == <<cache, r_calls, r_last, r_first>>

VARIABLES
    run,              \* invocations of main() so far
    pc,               \* where main() is: "off", "debug_org", "discovering",
                      \*   "enumerate", "passwords", "exporting", and the ends
                      \*   "done" (returned), "failed" (exit(1)), "crashed"
                      \*   (an exception left main)
    mode,             \* "debug" (DEBUG_ORG_ID set) or "full" (None)
    debug_org,        \* DEBUG_ORG_ID
    serverOrgs,       \* the server lists organizations 1..serverOrgs
    diskOrgs,         \* org_cache.json: sequence of [id, Processed]
    diskFolders,      \* folder_cache.json
    org_cache,        \* main's / get_all_organizations' org_cache
    page,             \* get_all_organizations: page
    idx,              \* main: position of the for loop in org_cache
    password_data,    \* main: password_data
    orgs_processed,   \* main: orgs_processed
    driver,           \* the browser session: "none", "open", "quit"
    built,            \* FolderResolver() returned
    pw_ids,           \* process_org_passwords: pw_ids
    pos,              \* process_org_passwords: position in pw_ids
    org_data,         \* process_org_passwords: password_data
    pw_detail,        \* process_org_passwords: pw_detail, its folder references
    fetched,          \* history: the fetches of the audit begun last: its organization,
                      \*   whether the enumeration returned, how many passwords it
                      \*   listed, how many detail fetches returned, and whether main
                      \*   then marked the organization Processed
    exportWrites,     \* times this run wrote itglue_passwords.json and .csv
    orgFileWrites,    \* history: times this run wrote org_cache.json
    procAtStart,      \* history: organizations Processed when the for loop began
    auditLog,         \* history: organizations process_org_passwords was called on, this run
    seen,             \* history: the passwords of this audit: folder id, result, and
                      \*   lookup: "none", "hit", "found" or the way it failed
    abortCause,       \* history: what ended the audit: "none", "fetch", "folder_id", "resolve"
    withRecords,      \* history: organizations marked Processed whose audit returned records
    exportedOrgs,     \* history: organizations whose records the run that marked them exported
    resumeOrg         \* history: the organization whose audit failed last, until it is done

mainVars == <<run, pc, mode, debug_org, serverOrgs, diskOrgs, diskFolders, org_cache,
              page, idx, password_data, orgs_processed, driver, built, pw_ids, pos,
              org_data, exportWrites, orgFileWrites, procAtStart, auditLog,
              seen, abortCause, withRecords, exportedOrgs, resumeOrg, pw_detail, fetched>>

NoResponse == [status |-> 0, retry_after |-> "absent"]

\* ------------------------------------------------------------- safe_get
\* The state of one call: [pc, attempt, error, response, hits].
FetchStart(hits) ==
    [pc |-> "running", attempt |-> 0, error |-> "none",
     response |-> NoResponse, hits |-> hits]

\* mutant: the loop falls through and the call goes on as if nothing happened
SafeGetExhaust_Swallow(st) == st

\* `raise Exception("Failed after ... attempts")` once range(retry_limit) is used up
SafeGetExhaust(st) ==
    IF st.pc = "running" /\ st.attempt >= retry_limit
    THEN [st EXCEPT !.pc = "raised", !.error = "fatal"]
    ELSE st

\* mutant: a throttled response does not use up an attempt
SafeGetThrottled_Free(st, r) ==
    [st EXCEPT !.hits = st.hits + 1, !.attempt = st.attempt - 1]

\* The 429 branch: parse Retry-After, count the hit, sleep, continue
SafeGetThrottled(st, r) ==
    IF ~RetryAfterParses(r)
    THEN [st EXCEPT !.pc = "raised", !.error = "ValueError"]
    ELSE [st EXCEPT !.hits = st.hits + 1]

\* One iteration of `for attempt in range(retry_limit)` on the response r,
\* followed by the raise when that was the last iteration.
SafeGetStep(st, r) ==
    LET s1 == [st EXCEPT !.attempt = st.attempt + 1]
        s2 == IF r.status = 429 THEN SafeGetThrottled(s1, r)
              ELSE IF ResponseOk(r)
                   THEN [s1 EXCEPT !.pc = "returned", !.response = r]
                   ELSE s1
    IN SafeGetExhaust(s2)

\* The whole call on the stream rs of responses the server would give.
RECURSIVE SafeGetRun(_, _)
SafeGetRun(st, rs) ==
    IF st.pc # "running" \/ rs = <<>> THEN st
    ELSE SafeGetRun(SafeGetStep(st, Head(rs)), Tail(rs))

SafeGet(hits, rs) == SafeGetRun(FetchStart(hits), rs)


\* ------------------------------------------------------- FolderResolver
FolderIds == 1..MaxFolders

\* Python's None in a resolution record
NoneVal == "<None>"

\* the text of a breadcrumb element as the page shows it
RawTexts == {"", "Invoices ", "Passwords"}

\* str.strip()
Strip(t) == CASE t = "Invoices " -> "Invoices" [] OTHER -> t

\* str.lower()
Lower(t) ==
    CASE t = "Invoices" -> "invoices"
      [] t = "Invoices " -> "invoices "
      [] t = "Passwords" -> "passwords"
      [] OTHER -> t

CrumbSeqs == UNION {[1..n -> RawTexts] : n \in 0..MaxCrumbs}

\* What the browser does on a cache miss: driver.get raises, the breadcrumb
\* wait times out (the elements are missing), an element has gone stale when
\* its text is read, or the page shows a breadcrumb trail.
LookupFailures == {"nav_error", "timeout", "stale"}
Lookups ==
    [kind : LookupFailures, crumbs : {<<>>}] \cup [kind : {"page"}, crumbs : CrumbSeqs]

NullResolution == [FolderName |-> NoneVal, ParentFolderName |-> NoneVal]

\* lines 91-103: the cache entry read off the breadcrumb trail
BreadcrumbEntry(crumbs) ==
    LET n == Len(crumbs)
        folder_name == IF n >= 1 THEN Strip(crumbs[n]) ELSE NoneVal
        parent_name == IF n >= 2 THEN Strip(crumbs[n - 1]) ELSE "root"
    IN [FolderName |-> folder_name,
        ParentFolderName |->
            IF Lower(parent_name) = "passwords" THEN "root" ELSE parent_name]

\* mutant: self.cache = {folder_id: {...}}, the earlier entries are dropped
CachePut_Reset(c, f, e) == [g \in {f} |-> e]

\* self.cache[folder_id] = {...}
CachePut(c, f, e) == [g \in DOMAIN c \cup {f} |-> IF g = f THEN e ELSE c[g]]

\* mutant: no except branch, the exception leaves resolve
ResolveFailed_Raise(c) ==
    [cache |-> c, result |-> NullResolution, navigated |-> TRUE, raised |-> TRUE]

\* the except branch: log and return the null record; the cache is not touched
ResolveFailed(c) ==
    [cache |-> c, result |-> NullResolution, navigated |-> TRUE, raised |-> FALSE]

\* mutant: the resolution is returned without being stored
ResolveStore_NoStore(c, f, crumbs) ==
    [cache |-> c, result |-> BreadcrumbEntry(crumbs), navigated |-> TRUE, raised |-> FALSE]

\* the try block after a breadcrumb trail was read
ResolveStore(c, f, crumbs) ==
    LET e == BreadcrumbEntry(crumbs)
    IN [cache |-> CachePut(c, f, e), result |-> e, navigated |-> TRUE, raised |-> FALSE]

\* resolve(org_id, folder_id) on the cache c, the browser answering o on a miss:
\* the cache after the call, the value returned, whether driver.get was
\* called, and whether an exception left the method.
Resolve(c, f, o) ==
    IF f \in DOMAIN c
    THEN [cache |-> c, result |-> c[f], navigated |-> FALSE, raised |-> FALSE]
    ELSE IF o.kind = "page" THEN ResolveStore(c, f, o.crumbs)
         ELSE ResolveFailed(c)

EmptyCache == [g \in {} |-> NullResolution]
NoCall == [fid |-> 0, result |-> NullResolution, navigated |-> FALSE,
           raised |-> FALSE, found |-> FALSE, nth |-> 0, hit |-> FALSE]

\* a resolver just constructed, no folder_cache.json on disk
ResolverFresh ==
    /\ cache = EmptyCache
    /\ r_calls = 0
    /\ r_last = NoCall
    /\ r_first = [f \in FolderIds |-> NoCall]

\* one resolve call on the resolver
ResolveCall(f, o) ==
    /\ r_calls < MaxCalls
    /\ LET res == Resolve(cache, f, o)
           call == [fid |-> f, result |-> res.result, navigated |-> res.navigated,
                    raised |-> res.raised,
                    found |-> res.navigated /\ o.kind = "page",
                    nth |-> IF r_first[f].nth = 0 THEN 1 ELSE 2,
                    hit |-> f \in DOMAIN cache]
       IN /\ cache' = res.cache
          /\ r_last' = call
          /\ r_first' = IF r_first[f].nth = 0 THEN [r_first EXCEPT ![f] = call]
                        ELSE r_first
    /\ r_calls' = r_calls + 1

\* ------------------------------------------------- the server, as main sees it
OrgIds == 1..MaxOrgs

\* GET /organizations?page[number]=p: the ids on page p when the server lists
\* organizations 1..n, and whether the answer carries links.next
ListingPage(n, p) ==
    LET lo == (p - 1) * PageSize + 1
        hi == IF p * PageSize < n THEN p * PageSize ELSE n
    IN [i \in 1..(IF hi >= lo THEN hi - lo + 1 ELSE 0) |-> lo + i - 1]

\* mutant: links.next is never seen, the loop breaks after the first page
HasNext_Never(n, p) == FALSE

HasNext(n, p) == p * PageSize < n

\* response streams main's fetches meet: success, one throttle then success,
\* three failures, three throttles, a throttle with an HTTP-date Retry-After
StreamCandidates ==
    LET ok == [status |-> 200, retry_after |-> "absent"]
        ko == [status |-> 500, retry_after |-> "absent"]
        th == [status |-> 429, retry_after |-> "seconds"]
        td == [status |-> 429, retry_after |-> "date"]
    IN {<<ok>>, <<th, ok>>, <<ko, ko, ko>>, <<th, th, th>>, <<td>>}

MainStreams == {rs \in StreamCandidates : SafeGet(0, rs).pc # "running"}

\* the folder reference of a password detail: the relationship "password-folder"
\* (absent, present with data null, present with an id) and the attribute
\* "password-folder-id" (0: absent)
Rels ==
    [kind : {"absent", "null"}, id : {0}] \cup [kind : {"id"}, id : FolderIds]

Details == [rel : Rels, attr : 0..MaxFolders]

\* pw_detail before the first detail of an audit was fetched
NoDetail == [rel |-> [kind |-> "unset", id |-> 0], attr |-> 0]

\* the details the runs of Spec meet: no folder reference, a relationship with
\* data null, a relationship naming folder 1 beside an attribute naming
\* another folder, and that attribute alone
MainDetails ==
    {d \in Details :
        \/ d.rel.kind \in {"absent", "null"} /\ d.attr = 0
        \/ d.rel.kind \in {"absent", "id"} /\ d.rel.id \in {0, 1} /\ d.attr = MaxFolders}

\* what the browser answers in main's runs: a failed lookup, a page whose
\* last breadcrumb is empty, a page of the folder "Invoices" under "Passwords"
MainLookups ==
    {[kind |-> "timeout", crumbs |-> <<>>],
     [kind |-> "page", crumbs |-> <<"">>],
     [kind |-> "page", crumbs |-> <<"Passwords", "Invoices ">>]}

\* and in SpecAudit also a page that shows no breadcrumb element, and every
\* way a lookup fails
AuditLookups ==
    MainLookups \cup {[kind |-> "page", crumbs |-> <<>>]}
        \cup [kind : LookupFailures, crumbs : {<<>>}]

\* Python truthiness of a folder name / folder id
Truthy(name) == name \notin {NoneVal, ""}

\* line 117: rels.get("password-folder", {}).get("data", {}).get("id")
\*           or attrs.get("password-folder-id")
\* folder_id 0 stands for None; data null makes .get raise AttributeError
FolderIdOf(d) ==
    IF d.rel.kind = "null" THEN [raised |-> TRUE, folder_id |-> 0]
    ELSE IF d.rel.kind = "id" THEN [raised |-> FALSE, folder_id |-> d.rel.id]
    ELSE [raised |-> FALSE, folder_id |-> d.attr]

NoFetches ==
    [org |-> 0, enum |-> FALSE, enumerated |-> 0, details |-> 0, marked |-> FALSE]

\* lines 129-139: the audit record
AuditRecord(org, pw, fid, res) ==
    [OrgID |-> org, PasswordID |-> pw, FolderID |-> fid,
     FolderName |-> res.FolderName, ParentFolderName |-> res.ParentFolderName]

\* mutant: the record is appended whatever the folder name
AppendIfNamed_Always(data, org, pw, fid, res) ==
    Append(data, AuditRecord(org, pw, fid, res))

\* lines 128-139: append the record when the folder name is truthy
AppendIfNamed(data, org, pw, fid, res) ==
    IF Truthy(res.FolderName) THEN Append(data, AuditRecord(org, pw, fid, res))
    ELSE data

\* mutant: every organization of the page is written as a fresh entry
MergePage_Overwrite(oc, ids) ==
    LET listed(x) == \E k \in 1..Len(ids) : ids[k] = x
        known(x) == \E i \in 1..Len(oc) : oc[i].id = x
        fresh == SelectSeq(ids, LAMBDA x : ~known(x))
    IN [i \in 1..Len(oc) |->
            IF listed(oc[i].id) THEN [id |-> oc[i].id, Processed |-> FALSE] ELSE oc[i]]
       \o [k \in 1..Len(fresh) |-> [id |-> fresh[k], Processed |-> FALSE]]

\* lines 80-87: add the organizations of a page the cache does not hold
RECURSIVE MergePage(_, _)
MergePage(oc, ids) ==
    IF ids = <<>> THEN oc
    ELSE LET known == \E i \in 1..Len(oc) : oc[i].id = Head(ids)
         IN MergePage(IF known THEN oc
                      ELSE Append(oc, [id |-> Head(ids), Processed |-> FALSE]),
                      Tail(ids))

ProcessedIds(oc) == {oc[i].id : i \in {j \in 1..Len(oc) : oc[j].Processed}}
CatalogIds(oc) == {oc[i].id : i \in 1..Len(oc)}

\* mutant: the for loop does not skip the entries already Processed
NextUnprocessed_NoSkip(oc, i) == IF i <= Len(oc) THEN i ELSE Len(oc) + 1

\* lines 187-189: the for loop moves on to the first entry from i that is not
\* Processed; Len(oc) + 1 when there is none
NextUnprocessed(oc, i) ==
    LET S == {j \in i..Len(oc) : ~oc[j].Processed}
    IN IF S = {} THEN Len(oc) + 1 ELSE CHOOSE j \in S : \A k \in S : j <= k

\* mutant: the file is not written
save_org_cache_Lost(disk, oc) == disk

\* save_org_cache(cache): org_cache.json, holding disk, is overwritten with oc
save_org_cache(disk, oc) == oc

\* org_cache[org_id]["Processed"] = True
MarkProcessed(oc, i) == [oc EXCEPT ![i].Processed = TRUE]

\* the organization being audited
CurOrg == IF mode = "debug" THEN debug_org ELSE org_cache[idx].id

\* ------------------------------------------------------- Spec: actions
MainOff ==
    /\ run = 0 /\ pc = "off" /\ mode = "full" /\ debug_org = 0
    /\ diskOrgs = <<>> /\ diskFolders = EmptyCache
    /\ org_cache = <<>> /\ page = 1 /\ idx = 1
    /\ password_data = <<>> /\ orgs_processed = 0
    /\ driver = "none" /\ built = FALSE
    /\ pw_ids = <<>> /\ pos = 1 /\ org_data = <<>>
    /\ exportWrites = 0 /\ orgFileWrites = 0
    /\ procAtStart = {} /\ auditLog = <<>> /\ seen = <<>> /\ abortCause = "none"
    /\ withRecords = {} /\ exportedOrgs = {} /\ resumeOrg = 0
    /\ pw_detail = NoDetail
    /\ fetched = NoFetches

\* main() begins in a new process: it constructs the resolver (load the
\* folder cache, start the browser, log in) and, in a full run,
\* get_all_organizations loads org_cache.json
MainBegin(m, d, n, login_ok) ==
    /\ mode' = m
    /\ debug_org' = d
    /\ serverOrgs' = n
    /\ rate_limit_hits' = 0
    /\ cache' = diskFolders
    /\ driver' = "open"
    /\ built' = login_ok
    /\ pc' = IF ~login_ok THEN "crashed"
             ELSE IF m = "debug" THEN "debug_org" ELSE "discovering"
    /\ org_cache' = IF login_ok /\ m = "full" THEN diskOrgs ELSE <<>>
    /\ page' = 1 /\ idx' = 1
    /\ password_data' = <<>> /\ orgs_processed' = 0
    /\ pw_ids' = <<>> /\ pos' = 1 /\ org_data' = <<>> /\ pw_detail' = NoDetail
    /\ fetched' = NoFetches
    /\ exportWrites' = 0 /\ orgFileWrites' = 0
    /\ procAtStart' = {} /\ auditLog' = <<>> /\ seen' = <<>> /\ abortCause' = "none"
    /\ UNCHANGED <<diskOrgs, diskFolders, withRecords, exportedOrgs, resumeOrg>>

\* `python ITGlueFolders.py`, at most MaxRuns times
StartRun(m, d, n, login_ok) ==
    /\ pc \in {"off", "done", "failed", "crashed"}
    /\ run < MaxRuns
    /\ run' = run + 1
    /\ MainBegin(m, d, n, login_ok)

\* the operator starts a full run, and starts one again whenever a run has
\* ended with exit(1) or a traceback; run counts the invocations up to MaxRuns
Restart(n, login_ok) ==
    /\ pc \in {"off", "failed", "crashed"}
    /\ run' = IF run < MaxRuns THEN run + 1 ELSE run
    /\ MainBegin("full", 0, n, login_ok)

\* FolderResolver.close(): _save_cache() and driver.quit()
\* (c: self.cache at that moment)
Close(c) ==
    /\ diskFolders' = c
    /\ driver' = "quit"

\* mutant: the organization is marked Processed although its audit failed
FatalExit_MarkFailed(c) ==
    IF mode = "full"
    THEN /\ diskOrgs' = save_org_cache(diskOrgs, MarkProcessed(org_cache, idx))
         /\ orgFileWrites' = orgFileWrites + 1
         /\ Close(c)
         /\ pc' = "failed"
         /\ resumeOrg' = CurOrg
    ELSE /\ pc' = "crashed"
         /\ UNCHANGED <<diskOrgs, orgFileWrites, diskFolders, driver, resumeOrg>>

\* An exception leaves process_org_passwords. In a full run lines 202-207
\* catch it: save_org_cache, resolver.close(), exit(1). In a debug run nothing
\* catches it and it leaves main.
FatalExit(c) ==
    IF mode = "full"
    THEN /\ diskOrgs' = save_org_cache(diskOrgs, org_cache)
         /\ orgFileWrites' = orgFileWrites + 1
         /\ Close(c)
         /\ pc' = "failed"
         /\ resumeOrg' = CurOrg
    ELSE /\ pc' = "crashed"
         /\ UNCHANGED <<diskOrgs, orgFileWrites, diskFolders, driver, resumeOrg>>

\* lines 171-175 of the debug run: fetch the organization's metadata
DebugFetchOrg(rs) ==
    /\ pc = "debug_org"
    /\ LET r == SafeGet(rate_limit_hits, rs)
       IN /\ r.hits <= MaxRunHits
          /\ rate_limit_hits' = r.hits
          /\ pc' = IF r.pc = "returned" THEN "enumerate" ELSE "crashed"
    /\ UNCHANGED <<cache, run, mode, debug_org, serverOrgs, diskOrgs, diskFolders,
                   org_cache, page, idx, password_data, orgs_processed, driver, built,
                   pw_ids, pos, org_data, exportWrites, orgFileWrites,
                   procAtStart, auditLog, seen, abortCause, withRecords, exportedOrgs,
                   resumeOrg, pw_detail, fetched>>

\* get_all_organizations: one turn of `while True`; after the last page
\* save_org_cache, and main goes on to line 187
DiscoverPage(rs) ==
    /\ pc = "discovering"
    /\ LET r == SafeGet(rate_limit_hits, rs)
           merged == MergePage(org_cache, ListingPage(serverOrgs, page))
           first == NextUnprocessed(merged, 1)
       IN /\ r.hits <= MaxRunHits
          /\ rate_limit_hits' = r.hits
          /\ IF r.pc # "returned"
             THEN /\ pc' = "crashed"
                  /\ UNCHANGED <<org_cache, page, diskOrgs, orgFileWrites, procAtStart, idx>>
             ELSE IF HasNext(serverOrgs, page)
             THEN /\ org_cache' = merged
                  /\ page' = page + 1
                  /\ UNCHANGED <<pc, diskOrgs, orgFileWrites, procAtStart, idx>>
             ELSE /\ org_cache' = merged
                  /\ diskOrgs' = save_org_cache(diskOrgs, merged)
                  /\ orgFileWrites' = orgFileWrites + 1
                  /\ procAtStart' = ProcessedIds(merged)
                  /\ idx' = first
                  /\ pc' = IF first > Len(merged) THEN "exporting" ELSE "enumerate"
                  /\ UNCHANGED page
    /\ UNCHANGED <<cache, run, mode, debug_org, serverOrgs, diskFolders,
                   password_data, orgs_processed, driver, built,
                   pw_ids, pos, org_data, exportWrites,
                   auditLog, seen, abortCause, withRecords, exportedOrgs, resumeOrg,
                   pw_detail, fetched>>

\* process_org_passwords, lines 100-105: fetch the password relationships
Enumerate(rs, n) ==
    /\ pc = "enumerate"
    /\ auditLog' = Append(auditLog, CurOrg)
    /\ seen' = <<>>
    /\ org_data' = <<>>
    /\ pos' = 1
    /\ pw_detail' = NoDetail
    /\ LET r == SafeGet(rate_limit_hits, rs)
       IN /\ r.hits <= MaxRunHits
          /\ rate_limit_hits' = r.hits
          /\ fetched' = [org |-> CurOrg, enum |-> r.pc = "returned",
                         enumerated |-> IF r.pc = "returned" THEN n ELSE 0,
                         details |-> 0, marked |-> FALSE]
          /\ IF r.pc = "returned"
             THEN /\ pw_ids' = [i \in 1..n |-> i]
                  /\ pc' = "passwords"
                  /\ UNCHANGED <<abortCause, diskOrgs, orgFileWrites, diskFolders,
                                 driver, resumeOrg>>
             ELSE /\ pw_ids' = <<>>
                  /\ abortCause' = "fetch"
                  /\ FatalExit(cache)
    /\ UNCHANGED <<cache, run, mode, debug_org, serverOrgs, org_cache, page, idx,
                   password_data, orgs_processed, built, exportWrites,
                   procAtStart, withRecords, exportedOrgs>>

\* process_org_passwords, lines 107-139: one turn of `for pw in pw_ids`
AuditPassword(rs, d, o) ==
    /\ pc = "passwords"
    /\ pos <= Len(pw_ids)
    /\ LET r == SafeGet(rate_limit_hits, rs)
           fo == FolderIdOf(d)
           res == Resolve(cache, fo.folder_id, o)
           pw == pw_ids[pos]
       IN /\ r.hits <= MaxRunHits
          /\ rate_limit_hits' = r.hits
          /\ pw_detail' = IF r.pc = "returned" THEN d ELSE pw_detail
          /\ fetched' = IF r.pc = "returned"
                        THEN [fetched EXCEPT !.details = fetched.details + 1]
                        ELSE fetched
          /\ IF r.pc # "returned"
             THEN /\ abortCause' = "fetch"
                  /\ UNCHANGED <<cache, seen, org_data, pos>>
                  /\ FatalExit(cache)
             ELSE IF fo.raised
             THEN /\ abortCause' = "folder_id"
                  /\ UNCHANGED <<cache, seen, org_data, pos>>
                  /\ FatalExit(cache)
             ELSE IF fo.folder_id = 0
             THEN /\ seen' = Append(seen, [pw |-> pw, fid |-> 0, lookup |-> "none",
                                           result |-> NullResolution])
                  /\ pos' = pos + 1
                  /\ UNCHANGED <<cache, org_data, abortCause, pc, diskOrgs,
                                 orgFileWrites, diskFolders, driver, resumeOrg>>
             ELSE /\ cache' = res.cache
                  /\ IF res.raised
                     THEN /\ abortCause' = "resolve"
                          /\ UNCHANGED <<seen, org_data, pos>>
                          /\ FatalExit(res.cache)
                     ELSE /\ seen' = Append(seen,
                                 [pw |-> pw, fid |-> fo.folder_id,
                                  lookup |-> IF ~res.navigated THEN "hit"
                                             ELSE IF o.kind = "page" THEN "found"
                                             ELSE o.kind,
                                  result |-> res.result])
                          /\ org_data' = AppendIfNamed(org_data, CurOrg, pw,
                                                       fo.folder_id, res.result)
                          /\ pos' = pos + 1
                          /\ UNCHANGED <<abortCause, pc, diskOrgs, orgFileWrites,
                                         diskFolders, driver, resumeOrg>>
    /\ UNCHANGED <<run, mode, debug_org, serverOrgs, org_cache, page, idx,
                   password_data, orgs_processed, built, pw_ids, exportWrites, procAtStart, auditLog, withRecords, exportedOrgs>>

\* mutant: `return password_data` indented into the for loop, the audit
\* returns after its first password
AuditReturns_Early == pos > 1 \/ pos > Len(pw_ids)

\* line 141: the for loop over pw_ids has ended and the audit returns
AuditReturns == pos > Len(pw_ids)

\* process_org_passwords returns (its locals are gone). Debug run, line 177:
\* password_data is what it returned. Full run, lines 196-200: extend
\* password_data, mark the organization, save_org_cache, and the for loop
\* moves on.
CompleteOrg ==
    /\ pc = "passwords"
    /\ AuditReturns
    /\ IF mode = "debug"
       THEN /\ password_data' = org_data
            /\ pc' = "exporting"
            /\ UNCHANGED <<org_cache, diskOrgs, orgFileWrites, orgs_processed, idx,
                           withRecords, resumeOrg, fetched>>
       ELSE LET marked == MarkProcessed(org_cache, idx)
                next == NextUnprocessed(marked, idx + 1)
            IN /\ password_data' = password_data \o org_data
               /\ org_cache' = marked
               /\ diskOrgs' = save_org_cache(diskOrgs, marked)
               /\ orgFileWrites' = orgFileWrites + 1
               /\ orgs_processed' = orgs_processed + 1
               /\ idx' = next
               /\ pc' = IF next > Len(marked) THEN "exporting" ELSE "enumerate"
               /\ withRecords' = IF org_data # <<>> THEN withRecords \cup {CurOrg}
                                 ELSE withRecords
               /\ resumeOrg' = IF resumeOrg = CurOrg THEN 0 ELSE resumeOrg
               /\ fetched' = [fetched EXCEPT !.marked = TRUE]
    /\ pw_ids' = <<>> /\ pos' = 1 /\ org_data' = <<>> /\ seen' = <<>>
    /\ pw_detail' = NoDetail
    /\ UNCHANGED <<cache, rate_limit_hits, run, mode, debug_org, serverOrgs, diskFolders,
                   page, driver, built, exportWrites,
                   procAtStart, auditLog, abortCause, exportedOrgs>>

\* mutant: the files are written whatever password_data holds
HasRecords_Ignored(data) == TRUE

\* lines 145-147: `if not password_data` skips the export
HasRecords(data) == data # <<>>

\* export_password_data(password_data), then the summary, and main returns
Export ==
    /\ pc = "exporting"
    /\ IF HasRecords(password_data)
       THEN /\ exportWrites' = exportWrites + 1
            /\ exportedOrgs' =
                 IF mode = "full"
                 THEN exportedOrgs \cup
                        {password_data[i].OrgID : i \in 1..Len(password_data)}
                 ELSE exportedOrgs
       ELSE UNCHANGED <<exportWrites, exportedOrgs>>
    /\ pc' = "done"
    /\ UNCHANGED <<cache, rate_limit_hits, run, mode, debug_org, serverOrgs, diskOrgs,
                   diskFolders, org_cache, page, idx, password_data, orgs_processed,
                   driver, built, pw_ids, pos, org_data, orgFileWrites, procAtStart,
                   auditLog, seen, abortCause, withRecords, resumeOrg, pw_detail,
                   fetched>>

\* -------------------------------------------------- SpecFetch: actions
FetchIdle ==
    /\ f_pc = "idle"
    /\ attempt = 0
    /\ f_error = "none"
    /\ f_response = NoResponse
    /\ rate_limit_hits = 0
    /\ f_hits0 = 0
    /\ f_log = <<>>

\* a caller calls safe_get(url, HEADERS)
CallSafeGet ==
    /\ f_pc # "running"
    /\ rate_limit_hits + retry_limit <= MaxHits
    /\ LET st == FetchStart(rate_limit_hits)
       IN /\ f_pc' = st.pc
          /\ attempt' = st.attempt
          /\ f_error' = st.error
          /\ f_response' = st.response
    /\ f_hits0' = rate_limit_hits
    /\ f_log' = <<>>
    /\ UNCHANGED rate_limit_hits

\* requests.get answers r and the loop body handles it
Receive(r) ==
    /\ f_pc = "running"
    /\ LET st == SafeGetStep([pc |-> f_pc, attempt |-> attempt, error |-> f_error,
                              response |-> f_response, hits |-> rate_limit_hits], r)
       IN /\ f_pc' = st.pc
          /\ attempt' = st.attempt
          /\ f_error' = st.error
          /\ f_response' = st.response
          /\ rate_limit_hits' = st.hits
    /\ f_log' = Append(f_log, r)
    /\ UNCHANGED f_hits0

vars == <<fetchVars, resolveVars, mainVars>>

FetchInit == FetchIdle /\ ResolverFresh /\ MainOff /\ serverOrgs = 1

FetchNext ==
    \/ CallSafeGet /\ UNCHANGED <<resolveVars, mainVars>>
    \/ \E r \in Responses : Receive(r) /\ UNCHANGED <<resolveVars, mainVars>>

SpecFetch == FetchInit /\ [][FetchNext]_vars

\* ------------------------------------------------ SpecResolve: actions
ResolveInit == FetchIdle /\ ResolverFresh /\ MainOff /\ serverOrgs = 1

ResolveNext ==
    \E f \in FolderIds, o \in Lookups :
        ResolveCall(f, o) /\ UNCHANGED <<fetchVars, mainVars>>

SpecResolve == ResolveInit /\ [][ResolveNext]_vars

\* ------------------------------------------------------------- Spec
Init == FetchIdle /\ ResolverFresh /\ MainOff /\ serverOrgs \in 1..MaxOrgs

fetchHistory == <<f_pc, attempt, f_error, f_response, f_hits0, f_log>>
resolveHistory == <<r_calls, r_last, r_first>>

Next ==
    \/ \E m \in {"debug", "full"}, n \in serverOrgs..MaxOrgs, login_ok \in BOOLEAN :
          StartRun(m, IF m = "debug" THEN 1 ELSE 0, n, login_ok)
            /\ UNCHANGED <<fetchHistory, resolveHistory>>
    \/ \E rs \in MainStreams :
          DebugFetchOrg(rs) /\ UNCHANGED <<fetchHistory, resolveHistory>>
    \/ \E rs \in MainStreams :
          DiscoverPage(rs) /\ UNCHANGED <<fetchHistory, resolveHistory>>
    \/ \E rs \in MainStreams, n \in 0..MaxRunPw :
          Enumerate(rs, n) /\ UNCHANGED <<fetchHistory, resolveHistory>>
    \/ \E rs \in MainStreams, d \in MainDetails, o \in MainLookups :
          AuditPassword(rs, d, o) /\ UNCHANGED <<fetchHistory, resolveHistory>>
    \/ CompleteOrg /\ UNCHANGED <<fetchHistory, resolveHistory>>
    \/ Export /\ UNCHANGED <<fetchHistory, resolveHistory>>

Spec == Init /\ [][Next]_vars

\* -------------------------------------------------------- SpecAudit
\* one run, the server listing one organization
AuditInit == FetchIdle /\ ResolverFresh /\ MainOff /\ serverOrgs = 1

\* the fetches of SpecAudit: the response comes at once, or after one
\* throttle, or safe_get raises after three failures
AuditStreams == {rs \in MainStreams : \A i \in 1..Len(rs) : rs[i].retry_after # "date"}

\* the details of SpecAudit: every shape of the relationship, beside a flat
\* attribute that is absent or names the folder MaxFolders
AuditDetails == {d \in Details : d.attr \in {0, MaxFolders}}

AuditNext ==
    \/ \E m \in {"debug", "full"}, login_ok \in BOOLEAN :
          /\ run = 0
          /\ StartRun(m, IF m = "debug" THEN 1 ELSE 0, 1, login_ok)
          /\ UNCHANGED <<fetchHistory, resolveHistory>>
    \/ \E rs \in AuditStreams :
          DebugFetchOrg(rs) /\ UNCHANGED <<fetchHistory, resolveHistory>>
    \/ \E rs \in AuditStreams :
          DiscoverPage(rs) /\ UNCHANGED <<fetchHistory, resolveHistory>>
    \/ \E rs \in AuditStreams, n \in 0..MaxPw :
          Enumerate(rs, n) /\ UNCHANGED <<fetchHistory, resolveHistory>>
    \/ \E rs \in AuditStreams, d \in AuditDetails, o \in AuditLookups :
          AuditPassword(rs, d, o) /\ UNCHANGED <<fetchHistory, resolveHistory>>
    \/ CompleteOrg /\ UNCHANGED <<fetchHistory, resolveHistory>>
    \/ Export /\ UNCHANGED <<fetchHistory, resolveHistory>>

SpecAudit == AuditInit /\ [][AuditNext]_vars

\* ------------------------------------------------------ SpecRestart
\* full runs, started again after every run that ended in an error
RestartInit == FetchIdle /\ ResolverFresh /\ MainOff /\ serverOrgs \in 1..MaxOrgs

\* the streams on which safe_get returns the response
OkStreams == {rs \in MainStreams : SafeGet(0, rs).pc = "returned"}

RestartNext ==
    \/ \E n \in serverOrgs..MaxOrgs, login_ok \in BOOLEAN :
          Restart(n, login_ok) /\ UNCHANGED <<fetchHistory, resolveHistory>>
    \/ \E rs \in MainStreams :
          DiscoverPage(rs) /\ UNCHANGED <<fetchHistory, resolveHistory>>
    \/ \E rs \in MainStreams, n \in 0..MaxRunPw :
          Enumerate(rs, n) /\ UNCHANGED <<fetchHistory, resolveHistory>>
    \/ \E rs \in MainStreams, d \in MainDetails, o \in MainLookups :
          AuditPassword(rs, d, o) /\ UNCHANGED <<fetchHistory, resolveHistory>>
    \/ CompleteOrg /\ UNCHANGED <<fetchHistory, resolveHistory>>
    \/ Export /\ UNCHANGED <<fetchHistory, resolveHistory>>

\* The process runs on while it can, and a run that ended in an error is
\* followed by another. No failure is permanent: the login, the fetch of
\* each listing page, the enumeration of each organization and the detail
\* fetch of each of its passwords succeed again and again when tried again
\* and again.
RestartFairness ==
    /\ WF_vars(RestartNext)
    /\ SF_vars(\E n \in serverOrgs..MaxOrgs :
                  Restart(n, TRUE) /\ UNCHANGED <<fetchHistory, resolveHistory>>)
    /\ \A p \in 1..MaxOrgs :
          SF_vars(\E rs \in OkStreams :
                     /\ page = p
                     /\ DiscoverPage(rs) /\ UNCHANGED <<fetchHistory, resolveHistory>>)
    /\ \A i \in 1..MaxOrgs :
          SF_vars(\E rs \in OkStreams, n \in 0..MaxRunPw :
                     /\ idx = i
                     /\ Enumerate(rs, n) /\ UNCHANGED <<fetchHistory, resolveHistory>>)
    /\ \A i \in 1..MaxOrgs, k \in 1..MaxRunPw :
          SF_vars(\E rs \in OkStreams, d \in MainDetails, o \in MainLookups :
                     /\ idx = i /\ pos = k
                     /\ AuditPassword(rs, d, o)
                     /\ UNCHANGED <<fetchHistory, resolveHistory>>)

SpecRestart == RestartInit /\ [][RestartNext]_vars /\ RestartFairness

\* ------------------------------------------------- SpecFetch: properties
CountIf(seq, P(_)) == Cardinality({i \in 1..Len(seq) : P(seq[i])})

IsThrottled(r) == r.status = 429
IsOtherFailure(r) == r.status # 429 /\ ~ResponseOk(r)
FetchEnded == f_pc \in {"returned", "raised"}

\* C1: throttling never escalates to the fatal error and does not use up the
\* retry budget: the fatal error is raised only after retry_limit non-throttling
\* failures, so a call whose failures are all 429s is never ended by it.
C1_ThrottlingNeverFatal ==
    /\ (\A i \in 1..Len(f_log) : ResponseOk(f_log[i]) \/ IsThrottled(f_log[i]))
            => f_error # "fatal"
    /\ f_error = "fatal" => CountIf(f_log, IsOtherFailure) >= retry_limit

\* C9: when a call has returned or raised, rate_limit_hits has grown by exactly
\* the number of 429 responses the call received.
C9_EveryThrottleCounted ==
    FetchEnded => rate_limit_hits - f_hits0 = CountIf(f_log, IsThrottled)

C19_BoundedRequests ==
    /\ Len(f_log) = attempt
    /\ Len(f_log) <= retry_limit
    /\ f_pc = "running" => Len(f_log) < retry_limit
    /\ Len(f_log) = retry_limit => FetchEnded

\* the server has throttled every request and the call has ended
C19_Witness ==
    /\ FetchEnded
    /\ Len(f_log) = retry_limit
    /\ CountIf(f_log, IsThrottled) = retry_limit

\* ------------------------------------------------------ Spec: properties
RunEnded == pc \in {"done", "failed", "crashed"}
FullRunDone == pc = "done" /\ mode = "full"
NoDuplicates(seq) == \A i, j \in 1..Len(seq) : seq[i] = seq[j] => i = j
Range(seq) == {seq[i] : i \in 1..Len(seq)}

\* C2: a full run that ends without a fatal error has audited exactly the
\* organizations of the catalog that were not Processed when the loop began
\* (N - K of them, each once, none of the K Processed ones), and every entry of
\* the persisted catalog is then Processed.
C2_Resumability ==
    FullRunDone =>
        /\ NoDuplicates(auditLog)
        /\ Range(auditLog) = CatalogIds(org_cache) \ procAtStart
        /\ Len(auditLog) = Len(org_cache) - Cardinality(procAtStart)
        /\ orgs_processed = Len(auditLog)
        /\ Len(diskOrgs) = Len(org_cache)
        /\ CatalogIds(diskOrgs) = CatalogIds(org_cache)
        /\ \A i \in 1..Len(diskOrgs) : diskOrgs[i].Processed

C2_Witness ==
    /\ FullRunDone
    /\ procAtStart # {}
    /\ auditLog # <<>>
    /\ Len(org_cache) = MaxOrgs

\* C3: whenever a run has ended after the resolver was constructed, close()
\* has run: the browser session is released and folder_cache.json holds the
\* resolver's cache.
C3_CloseOnEveryExit ==
    (RunEnded /\ built) => (driver = "quit" /\ diskFolders = cache)

\* C4: when a full run reaches DONE, every organization the persisted catalog
\* marks Processed whose audit returned records has had those records written
\* to the export files by the run that marked it.
C4_ExportComplete ==
    FullRunDone =>
        \A o \in ProcessedIds(diskOrgs) : o \in withRecords => o \in exportedOrgs

\* the records the skip policy allows, from the history of the audit: the
\* passwords with a folder id whose folder resolved to a non-empty name
RECURSIVE KeptRecords(_, _)
KeptRecords(org, log) ==
    IF log = <<>> THEN <<>>
    ELSE LET e == Head(log)
             keep == /\ e.fid # 0
                     /\ e.result.FolderName # NoneVal
                     /\ e.result.FolderName # ""
         IN (IF keep
             THEN <<[OrgID |-> org, PasswordID |-> e.pw, FolderID |-> e.fid,
                     FolderName |-> e.result.FolderName,
                     ParentFolderName |-> e.result.ParentFolderName]>>
             ELSE <<>>) \o KeptRecords(org, Tail(log))

\* C6: while and when an audit returns, its records are exactly, in
\* enumeration order, the passwords handled so far that have a folder id and
\* whose folder resolved to a non-empty name; and no record main holds has a
\* missing folder id or an empty or null folder name.
C6_SkipPolicy ==
    /\ pc = "passwords" =>
          /\ Len(seen) = pos - 1
          /\ \A i \in 1..Len(seen) : seen[i].pw = pw_ids[i]
          /\ org_data = KeptRecords(CurOrg, seen)
    /\ \A i \in 1..Len(password_data) :
          /\ password_data[i].FolderID # 0
          /\ password_data[i].FolderName \notin {NoneVal, ""}

C6_Witness ==
    /\ pc = "passwords" /\ pos > Len(pw_ids)
    /\ Len(seen) = 2
    /\ seen[1].fid # 0 /\ seen[1].result.FolderName = ""
    /\ seen[2].fid # 0 /\ seen[2].result.FolderName = "Invoices"
    /\ Len(org_data) = 1 /\ org_data[1].PasswordID = 2

\* C7: after a fatal error while auditing organization i in a full run, the
\* catalog is persisted, the resolver released and nothing exported; every
\* organization processed before (in earlier runs or earlier in this run) is
\* still marked in the persisted catalog and i is not; and the first
\* organization a later full run audits is i.
C7_FailurePersistsProgress ==
    /\ pc = "failed" =>
          /\ mode = "full"
          /\ auditLog # <<>>
          /\ resumeOrg = auditLog[Len(auditLog)]
          /\ diskOrgs = org_cache
          /\ driver = "quit" /\ diskFolders = cache
          /\ exportWrites = 0
          /\ procAtStart \subseteq ProcessedIds(diskOrgs)
          /\ \A k \in 1..(Len(auditLog) - 1) : auditLog[k] \in ProcessedIds(diskOrgs)
          /\ resumeOrg \notin ProcessedIds(diskOrgs)
    /\ (mode = "full" /\ pc # "failed" /\ resumeOrg # 0 /\ auditLog # <<>>) =>
          auditLog[1] = resumeOrg

C7_Witness ==
    /\ pc = "failed"
    /\ run = 2
    /\ procAtStart # {}
    /\ Len(auditLog) = 1

\* C8: a lookup that fails on a cache miss never leaves resolve as an
\* exception: resolve returns the record with both names null, the password is
\* not exported, and the audit goes on with the next password.
C8_ResolveNeverRaises ==
    /\ abortCause # "resolve"
    /\ \A i \in 1..Len(seen) :
          seen[i].lookup \in LookupFailures =>
              /\ seen[i].result.FolderName = NoneVal
              /\ seen[i].result.ParentFolderName = NoneVal
    /\ (pc = "passwords" /\ seen # <<>> /\ seen[Len(seen)].lookup \in LookupFailures) =>
          /\ pos = Len(seen) + 1
          /\ \A k \in 1..Len(org_data) : org_data[k].PasswordID # seen[Len(seen)].pw

C8_Witness ==
    /\ pc = "passwords"
    /\ Len(seen) = 2
    /\ seen[1].lookup = "timeout"
    /\ seen[2].lookup = "found"
    /\ Len(org_data) = 1

\* C11: determining the folder id never aborts the audit, and for the detail
\* handled last the folder id used is the relationship's id when the
\* relationship carries one, otherwise the value of the flat attribute,
\* otherwise none, in which case no lookup is made and no record is kept.
C11_FolderIdFallback ==
    /\ abortCause # "folder_id"
    /\ (pc = "passwords" /\ seen # <<>>) =>
          LET e == seen[Len(seen)]
          IN /\ e.fid = IF pw_detail.rel.kind = "id" THEN pw_detail.rel.id
                        ELSE pw_detail.attr
             /\ e.fid = 0 =>
                   /\ e.lookup = "none"
                   /\ \A k \in 1..Len(org_data) : org_data[k].PasswordID # e.pw

\* C12: no step of any run removes an entry of the persisted catalog, changes
\* its id or turns its Processed flag from true to false; a discovery that
\* completes leaves every existing entry as it was and appends one entry,
\* not Processed, for each listed organization the catalog did not hold, so
\* a discovery over a catalog that already holds the listing changes
\* nothing; and merging a page a second time changes nothing.
C12_MergeMonotone ==
    [][/\ Len(diskOrgs') >= Len(diskOrgs)
       /\ \A i \in 1..Len(diskOrgs) :
             /\ diskOrgs'[i].id = diskOrgs[i].id
             /\ diskOrgs[i].Processed => diskOrgs'[i].Processed
       /\ (pc = "discovering" /\ pc' \in {"enumerate", "exporting"}) =>
             /\ \A i \in 1..Len(diskOrgs) : diskOrgs'[i] = diskOrgs[i]
             /\ \A i \in (Len(diskOrgs) + 1)..Len(diskOrgs') :
                   /\ ~diskOrgs'[i].Processed
                   /\ diskOrgs'[i].id \in (1..serverOrgs) \ CatalogIds(diskOrgs)
             /\ CatalogIds(diskOrgs') = CatalogIds(diskOrgs) \cup (1..serverOrgs)
             /\ \A i, j \in 1..Len(diskOrgs') :
                   diskOrgs'[i].id = diskOrgs'[j].id => i = j
             /\ (1..serverOrgs) \subseteq CatalogIds(diskOrgs) => diskOrgs' = diskOrgs
       /\ (pc = "discovering" /\ pc' # "crashed") =>
             MergePage(org_cache', ListingPage(serverOrgs, page)) = org_cache'
      ]_vars

\* the second run's discovery has added organization 2 to a catalog in which
\* the first run left organization 1 Processed
C12_Witness ==
    /\ run = 2 /\ mode = "full" /\ pc = "enumerate"
    /\ auditLog = <<>>
    /\ resumeOrg = 0
    /\ Len(diskOrgs) = 2
    /\ diskOrgs[1].Processed /\ ~diskOrgs[2].Processed
    /\ diskOrgs = org_cache

\* C13: when full runs are started again after every run that ended in an
\* error and no request fails for ever, eventually a run reaches DONE with
\* every organization of the persisted catalog Processed; and no step of any
\* run clears a Processed flag the persisted catalog holds.
C13_ForwardProgress ==
    /\ <>(/\ FullRunDone
          /\ diskOrgs # <<>>
          /\ \A i \in 1..Len(diskOrgs) : diskOrgs[i].Processed)
    /\ [][\A i \in 1..Len(diskOrgs) :
             diskOrgs[i].Processed =>
                 i <= Len(diskOrgs') /\ diskOrgs'[i].Processed]_vars

\* the organizations this full run has marked Processed
MarkedThisRun == ProcessedIds(diskOrgs) \ procAtStart

\* C14: in a full run that has begun auditing, the organizations marked
\* Processed during the run are audited ones, as many as orgs_processed
\* counts; the organization audited last is marked exactly when main set the
\* flag after its audit returned; and when it did, the enumeration fetch and
\* the detail fetch of every enumerated password had returned a success.
C14_ProcessedOnlyAfterAudit ==
    (mode = "full" /\ auditLog # <<>>) =>
        /\ MarkedThisRun \subseteq Range(auditLog)
        /\ Cardinality(MarkedThisRun) = orgs_processed
        /\ fetched.org = auditLog[Len(auditLog)]
        /\ fetched.org \in MarkedThisRun <=> fetched.marked
        /\ fetched.marked =>
              /\ fetched.enum
              /\ fetched.details = fetched.enumerated
              /\ abortCause = "none"
        /\ pc = "failed" => ~fetched.marked

\* an organization with two passwords has been marked after three fetches
C14_Witness ==
    /\ mode = "full"
    /\ fetched.marked
    /\ fetched.enumerated = MaxPw
    /\ fetched.details = MaxPw
    /\ fetched.org \in ProcessedIds(diskOrgs)

\* the organizations whose audit has completed in this run: line 200 counts
\* them, and they are the first orgs_processed of those audited
CompletedThisRun == {auditLog[k] : k \in 1..orgs_processed}

\* C15: at every point of the auditing phase of a full run every
\* organization whose audit has completed in this run is marked Processed in
\* the persisted catalog (marking and saving follow the audit's return in
\* the same step, so not even the organization completed last is missing),
\* and the persisted catalog is the catalog main holds.
C15_ProgressPersisted ==
    (mode = "full" /\ pc \in {"enumerate", "passwords"}) =>
        /\ orgs_processed <= Len(auditLog)
        /\ Cardinality(CompletedThisRun \ ProcessedIds(diskOrgs)) <= 1
        /\ CompletedThisRun \subseteq ProcessedIds(diskOrgs)
        /\ diskOrgs = org_cache

\* the second organization is being audited, the first is on disk as Processed
C15_Witness ==
    /\ mode = "full" /\ pc = "passwords"
    /\ orgs_processed = 1
    /\ Len(auditLog) = 2
    /\ auditLog[1] \in ProcessedIds(diskOrgs)
    /\ auditLog[2] \notin ProcessedIds(diskOrgs)

\* C16: while discovery runs, the pages 1..page-1 have been fetched and the
\* listing goes on beyond each of them, and org_cache.json has not been
\* written. A step of discovery either moves on to the next page without
\* writing the file, or, on the page that ends the listing, writes the merged
\* catalog (the one write of the discovery, and every listed organization is
\* in it), or, when the fetch raises, leaves the file as it was and the
\* exception leaves main.
C16_DiscoveryAllOrNothing ==
    [][pc = "discovering" =>
         /\ page >= 1
         /\ (page - 1) * PageSize < serverOrgs \/ page = 1
         /\ orgFileWrites = 0
         /\ pc' = "discovering" =>
               /\ page' = page + 1
               /\ page * PageSize < serverOrgs
               /\ orgFileWrites' = 0
               /\ diskOrgs' = diskOrgs
         /\ pc' \in {"enumerate", "exporting"} =>
               /\ page' = page
               /\ page * PageSize >= serverOrgs
               /\ orgFileWrites' = 1
               /\ diskOrgs' = org_cache'
               /\ (1..serverOrgs) \subseteq CatalogIds(diskOrgs')
         /\ pc' = "crashed" =>
               /\ orgFileWrites' = 0
               /\ diskOrgs' = diskOrgs
         /\ pc' \in {"discovering", "enumerate", "exporting", "crashed"}
      ]_vars

\* the fetch of page 2 has raised: the organizations of page 1 are in the
\* catalog in memory, org_cache.json was not written
C16_Witness ==
    /\ pc = "crashed" /\ mode = "full" /\ built
    /\ page = 2
    /\ org_cache # diskOrgs
    /\ orgFileWrites = 0

\* C17: in a full run the export step is taken only when every organization
\* of the catalog was Processed when the loop began (and was not audited) or
\* has been audited to the end in this run, no audit having failed; the step
\* writes the two files, once, exactly when password_data holds a record; no
\* other step writes them, so a run writes them at most once and a run that
\* ends FAILED or with a traceback has not written them.
C17_ExportOrdering ==
    [][mode' = "full" =>
         /\ (pc = "exporting" /\ pc' = "done") =>
               /\ CatalogIds(org_cache) = procAtStart \cup CompletedThisRun
               /\ procAtStart \cap Range(auditLog) = {}
               /\ Len(auditLog) = orgs_processed
               /\ abortCause = "none"
               /\ exportWrites = 0
               /\ exportWrites' = IF password_data # <<>> THEN 1 ELSE 0
         /\ exportWrites' # exportWrites => (pc = "exporting" \/ exportWrites' = 0)
         /\ pc = "done" => pc' # "done"
         /\ exportWrites' <= 1
         /\ pc' \in {"failed", "crashed"} => exportWrites' = 0
      ]_vars

\* a run that skipped one organization and audited the other has exported
C17_Witness ==
    /\ FullRunDone
    /\ exportWrites = 1
    /\ Cardinality(procAtStart) = 1
    /\ orgs_processed = 1

\* ----------------------------------------------- SpecResolve: properties
\* C5 as stated: whatever the first call on a folder id did, a later resolve
\* of the same id issues no lookup and returns what the first call returned.
C5_SecondResolveSameAsFirst ==
    r_last.nth = 2 =>
        /\ ~r_last.navigated
        /\ r_last.result = r_first[r_last.fid].result

\* C5 amended: when the first resolve of a folder id read a breadcrumb trail
\* (the lookup did not fail), a later resolve of the same id issues no lookup
\* and returns what the first call returned.
C5_ResolvedOnceNeverAgain ==
    (r_last.nth = 2 /\ r_first[r_last.fid].found) =>
        /\ ~r_last.navigated
        /\ r_last.result = r_first[r_last.fid].result

C5_Witness ==
    /\ r_last.nth = 2
    /\ r_first[r_last.fid].found
    /\ r_first[r_last.fid].result.FolderName = "Invoices"
    /\ ~r_last.navigated

\* C18: a resolve call leaves every entry the cache holds in place and
\* unchanged; and a call whose lookup failed leaves the whole cache unchanged,
\* with no entry for the identifier it was called on.
C18_CacheWriteOnce ==
    [][/\ \A f \in DOMAIN cache : f \in DOMAIN cache' /\ cache'[f] = cache[f]
       /\ (r_calls' = r_calls + 1 /\ r_last'.navigated /\ ~r_last'.found) =>
             /\ cache' = cache
             /\ r_last'.fid \notin DOMAIN cache'
       /\ (r_calls' = r_calls + 1 /\ r_last'.found) =>
             DOMAIN cache' = DOMAIN cache \cup {r_last'.fid}
      ]_vars

\* with one folder in the cache, the lookup of the other has just failed
C18_Witness ==
    /\ r_last.navigated /\ ~r_last.found
    /\ r_last.fid \notin DOMAIN cache
    /\ \E f \in DOMAIN cache : cache[f].FolderName = "Invoices"

====
